---- MODULE Spec2Model ----
(***************************************************************************)
(* Round settlement engine of the BucketBall backend:                      *)
(* GameService.PlaceBet and GameService.PlayGame over the games, bets,     *)
(* game_results, users and house_wallet collections, with the outcome      *)
(* selector models.CalculateWinningBasket.                                 *)
(*                                                                         *)
(* Every repository call (one MongoDB operation) is one atomic step of the *)
(* request that issues it; the local computation of a handler is attached  *)
(* to the repository call that follows it.  Money (float64 in the source)  *)
(* is modelled by exact rationals <<numerator, denominator>>, so rounding  *)
(* of float64 arithmetic is outside the model.  Go maps are ranged in      *)
(* ascending key order; timestamps other than a game's created_at are not  *)
(* kept.                                                                   *)
(***************************************************************************)
EXTENDS Integers, Sequences, FiniteSets, TLC

VARIABLES
    users,      \* users collection: user id -> balance
    games,      \* games collection, in insertion order; a game's id is its index
    bets,       \* bets collection, in insertion order; a bet's id is its index
    results,    \* game_results collection, in insertion order
    wallet,     \* house_wallet collection: NoWallet or the single document
    pc,         \* per request handler: position in PlaceBet / PlayGame
    loc,        \* per request handler: the local variables of the running call
    ret,        \* per request handler: what its last call returned
    betsLeft,   \* number of PlaceBet calls that may still pass validation
    playsLeft,  \* number of PlayGame calls that may still find an active game
    now,        \* clock, in units of the staleness window
    faults      \* number of repository calls that may still return an error

vars == <<users, games, bets, results, wallet, pc, loc, ret, betsLeft, playsLeft, now, faults>>

---------------------------------------------------------------------------
(* Bounds of the model *)

NUsers == 1
NThreads == 2
MaxBets == 1
MaxPlays == 1
MaxNow == 1
MaxFaults == 1
DepletingRounds == 12
MaxNano == 119
InitBalance == 200

Users == 1..NUsers

---------------------------------------------------------------------------
(* Exact rational arithmetic standing for float64 *)

RECURSIVE GCD(_, _)
GCD(a, b) == IF b = 0 THEN a ELSE GCD(b, a % b)

Abs(n) == IF n < 0 THEN -n ELSE n

Norm(n, d) ==
    LET s == IF d < 0 THEN -1 ELSE 1
        g == GCD(Abs(n), Abs(d))
    IN  <<(s * n) \div g, (s * d) \div g>>

Rat(n) == <<n, 1>>
Zero == <<0, 1>>
RAdd(x, y) == Norm(x[1] * y[2] + y[1] * x[2], x[2] * y[2])
RSub(x, y) == Norm(x[1] * y[2] - y[1] * x[2], x[2] * y[2])
RMul(x, y) == Norm(x[1] * y[1], x[2] * y[2])
RDiv(x, y) == Norm(x[1] * y[2], x[2] * y[1])
RLt(x, y) == x[1] * y[2] < y[1] * x[2]
RLe(x, y) == x[1] * y[2] <= y[1] * x[2]
RAbs(x) == <<Abs(x[1]), x[2]>>

---------------------------------------------------------------------------
(* Catalog *)

Balls == 0..3
BasketIds == 0..7

BasketValue(i) ==
    CASE i = 0 -> <<1, 4>>
      [] i = 1 -> <<1, 2>>
      [] i = 2 -> <<3, 4>>
      [] i = 3 -> <<1, 1>>
      [] i = 4 -> <<2, 1>>
      [] i = 5 -> <<4, 1>>
      [] i = 6 -> <<8, 1>>
      [] i = 7 -> <<10, 1>>

WalletShare == <<1, 5>>          \* 0.20
InitialHouseWallet == 1000

---------------------------------------------------------------------------
(* Outcome selector: models.CalculateWinningBasket *)

\* weights[i + 1] is the weight of basket i
DefaultWeights == <<35, 25, 15, 5, 8, 6, 4, 2>>

RedistributedWeights == <<40, 30, 20, 10>>

MaxMultiplier(totalPlayerBets, currentWallet) ==
    IF RLt(Zero, totalPlayerBets)
    THEN RDiv(RMul(currentWallet, WalletShare), totalPlayerBets)
    ELSE Zero

\* variant of AdjustedWeights: no weight is zeroed
AdjustedWeightsUnfiltered(maxMultiplier) == DefaultWeights

\* variant of AdjustedWeights: every basket whose multiplier exceeds
\* maxMultiplier is zeroed, the four lowest included
AdjustedWeightsByValue(maxMultiplier) ==
    <<IF RLt(maxMultiplier, BasketValue(0)) THEN 0 ELSE DefaultWeights[1],
      IF RLt(maxMultiplier, BasketValue(1)) THEN 0 ELSE DefaultWeights[2],
      IF RLt(maxMultiplier, BasketValue(2)) THEN 0 ELSE DefaultWeights[3],
      IF RLt(maxMultiplier, BasketValue(3)) THEN 0 ELSE DefaultWeights[4],
      IF RLt(maxMultiplier, BasketValue(4)) THEN 0 ELSE DefaultWeights[5],
      IF RLt(maxMultiplier, BasketValue(5)) THEN 0 ELSE DefaultWeights[6],
      IF RLt(maxMultiplier, BasketValue(6)) THEN 0 ELSE DefaultWeights[7],
      IF RLt(maxMultiplier, BasketValue(7)) THEN 0 ELSE DefaultWeights[8]>>

\* lines 136-146
AdjustedWeights(maxMultiplier) ==
    <<DefaultWeights[1], DefaultWeights[2], DefaultWeights[3], DefaultWeights[4],
      IF RLt(maxMultiplier, Rat(2)) THEN 0 ELSE DefaultWeights[5],
      IF RLt(maxMultiplier, Rat(2)) THEN 0 ELSE DefaultWeights[6],
      IF RLt(maxMultiplier, Rat(4)) THEN 0 ELSE DefaultWeights[7],
      IF RLt(maxMultiplier, Rat(8)) THEN 0 ELSE DefaultWeights[8]>>

AvailableCount(weights) == Cardinality({i \in 1..8 : weights[i] > 0})

\* lines 158-172
RedistributedWeight(weights, i) ==
    IF weights[i] > 0
    THEN LET weightIndex == Cardinality({j \in 1..8 : j < i /\ weights[j] > 0})
         IN  IF weightIndex < Len(RedistributedWeights)
             THEN RedistributedWeights[weightIndex + 1]
             ELSE 10
    ELSE 0

Redistribute(weights) ==
    <<RedistributedWeight(weights, 1), RedistributedWeight(weights, 2),
      RedistributedWeight(weights, 3), RedistributedWeight(weights, 4),
      RedistributedWeight(weights, 5), RedistributedWeight(weights, 6),
      RedistributedWeight(weights, 7), RedistributedWeight(weights, 8)>>

FinalWeights(totalPlayerBets, currentWallet) ==
    LET weights == AdjustedWeights(MaxMultiplier(totalPlayerBets, currentWallet))
    IN  IF AvailableCount(weights) < 4 THEN Redistribute(weights) ELSE weights

TotalWeight(weights) ==
    weights[1] + weights[2] + weights[3] + weights[4]
        + weights[5] + weights[6] + weights[7] + weights[8]

\* lines 188-195: the loop over the weights, from basket i on
RECURSIVE Draw(_, _, _)
Draw(weights, i, random) ==
    IF i > 7 THEN 0
    ELSE IF random - weights[i + 1] <= 0 THEN i
    ELSE Draw(weights, i + 1, random - weights[i + 1])

\* the basket chosen from final weights; nano is time.Now().UnixNano()
DrawBasket(weights, nano) ==
    IF TotalWeight(weights) = 0 THEN 0
    ELSE Draw(weights, 0, nano % TotalWeight(weights))

CalculateWinningBasket(totalPlayerBets, currentWallet, nano) ==
    DrawBasket(FinalWeights(totalPlayerBets, currentWallet), nano)

\* the baskets CalculateWinningBasket can return over all clock readings
\* (only nano % totalWeight is used)
PossibleBaskets(totalPlayerBets, currentWallet) ==
    LET weights == FinalWeights(totalPlayerBets, currentWallet)
        totalWeight == TotalWeight(weights)
    IN  IF totalWeight = 0 THEN {0}
        ELSE {DrawBasket(weights, nano) : nano \in 0..(totalWeight - 1)}

---------------------------------------------------------------------------
(* Documents and request inputs *)

NoWallet == [present |-> FALSE, balance |-> Zero, adminProfit |-> Zero, totalBets |-> Zero]

NoGame == [status |-> "none", winningBallID |-> -1, winningBasketID |-> -1,
           totalBets |-> Zero, houseWallet |-> Zero, adminProfit |-> Zero,
           createdAt |-> 0]

\* the requests PlaceBet is called with: a valid one on two balls, a valid one
\* on one ball, and one for each validation error (4 is not a ball)
ValidRequests == {(0 :> 100 @@ 1 :> 10), (1 :> 10)}
InvalidRequests == {<<>>, (4 :> 100), (0 :> 0), (0 :> 1001), (0 :> 5)}
Requests == ValidRequests \cup InvalidRequests

\* the requests of the runs with concurrent requests: bets on one ball only
ConcRequests == {(1 :> 10)} \cup InvalidRequests

\* admin skim rate, 0.02 + rand.Float64()*0.02 in [0.02, 0.04): the midpoint
AdminProfitRates == {<<3, 100>>}

HandlerIds == 1..NThreads

IdleLoc == [user |-> 0, req |-> <<>>, totalBetAmount |-> Zero, balance |-> Zero,
            currentGame |-> 0, game |-> NoGame, todo |-> {},
            bets |-> <<>>, tempResults |-> <<>>, walletLimitFactor |-> Zero,
            idx |-> 0, houseWallet |-> NoWallet]

---------------------------------------------------------------------------
(* models.User balance helpers *)

AddToBalance(balance, amount) == RAdd(balance, amount)

\* the balance after SubtractFromBalance; the error branch is CanSubtract = FALSE
CanSubtract(balance, amount) == ~RLt(balance, amount)
SubtractFromBalance(balance, amount) == RSub(balance, amount)

---------------------------------------------------------------------------
(* Repository operations *)

\* GameRepository.GetHouseWallet: the stored document, created with the
\* initial balance when the collection is empty
GetHouseWallet(w) ==
    IF w.present THEN w
    ELSE [present |-> TRUE, balance |-> Rat(InitialHouseWallet),
          adminProfit |-> Zero, totalBets |-> Zero]

\* GameRepository.GetCurrentGame: the most recently created active game, 0 for nil
GetCurrentGame(gs) ==
    LET active == {g \in DOMAIN gs : gs[g].status = "active"}
    IN  IF active = {} THEN 0
        ELSE CHOOSE g \in active : \A h \in active : h <= g

\* GameRepository.GetBetsByGameID: ids of the bets of a game, in stored order
GetBetsByGameID(bs, gameID) ==
    SelectSeq([i \in DOMAIN bs |-> i], LAMBDA i : bs[i].gameID = gameID)

\* GameRepository.UpdateBet: $set status on the bet whose _id is betID
UpdateBet(bs, betID, status) ==
    [i \in DOMAIN bs |-> IF i = betID THEN [bs[i] EXCEPT !.status = status] ELSE bs[i]]

\* primitive.NewObjectID(): a fresh id, equal to the id of no stored document
NewObjectID == 0

---------------------------------------------------------------------------
(* GameService.PlaceBet *)

RECURSIVE SumAmounts(_, _)
SumAmounts(req, S) ==
    IF S = {} THEN 0
    ELSE LET b == CHOOSE x \in S : TRUE
         IN  req[b] + SumAmounts(req, S \ {b})

TotalBetAmount(req) == SumAmounts(req, DOMAIN req)

\* the amounts of a request as float64 values
Floats(req) == [b \in DOMAIN req |-> Rat(req[b])]

RECURSIVE SumFloats(_, _)
SumFloats(req, S) ==
    IF S = {} THEN Zero
    ELSE LET b == CHOOSE x \in S : TRUE
         IN  RAdd(req[b], SumFloats(req, S \ {b}))

\* lines 87-100: the error of one map entry, "" when the entry passes
EntryError(ballID, amount) ==
    IF ballID \notin Balls THEN "invalid ball ID"
    ELSE IF RLe(amount, Zero) THEN "invalid bet amount"
    ELSE IF RLt(Rat(1000), amount) THEN "maximum bet amount per ball is $1000"
    ELSE ""

\* lines 73-113: the errors PlaceBet's validation can return for a request
\* with float64 amounts (the map is ranged over in any order, so any failing
\* entry can be the first one met); empty when the request is valid
PlaceBetValidation(req) ==
    LET entryErrors == {EntryError(b, req[b]) : b \in DOMAIN req} \ {""}
        totalBetAmount == SumFloats(req, DOMAIN req)
    IN  IF DOMAIN req = {} THEN {"no balls selected for betting"}
        ELSE IF entryErrors # {} THEN entryErrors
        ELSE IF RLt(Rat(5000), totalBetAmount) THEN {"maximum total bet amount is $5000"}
        ELSE IF RLt(totalBetAmount, Rat(10)) THEN {"minimum total bet amount is $10"}
        ELSE {}

\* PlaceBetRequest.Validate, lines 246-257 of the models file: the error of
\* one map entry, "" when the entry passes
ValidateEntryError(ballID, amount) ==
    IF ballID \notin Balls THEN "invalid ball ID"
    ELSE IF RLe(amount, Zero) THEN "bet amount must be positive"
    ELSE IF RLt(Rat(1000), amount) THEN "maximum bet amount per ball is $1000"
    ELSE ""

\* PlaceBetRequest.Validate: the errors it can return, empty for nil
Validate(req) ==
    LET entryErrors == {ValidateEntryError(b, req[b]) : b \in DOMAIN req} \ {""}
        totalAmount == SumFloats(req, DOMAIN req)
    IN  IF Cardinality(DOMAIN req) = 0 THEN {"no balls selected for betting"}
        ELSE IF Cardinality(DOMAIN req) > 4 THEN {"maximum 4 balls can be selected"}
        ELSE IF entryErrors # {} THEN entryErrors
        ELSE IF RLt(totalAmount, Rat(10)) THEN {"minimum total bet amount is $10"}
        ELSE IF RLt(Rat(5000), totalAmount) THEN {"maximum total bet amount is $5000"}
        ELSE {}

Return(t, value) ==
    /\ pc' = [pc EXCEPT ![t] = "idle"]
    /\ loc' = [loc EXCEPT ![t] = IdleLoc]
    /\ ret' = [ret EXCEPT ![t] = value]

Call(t, label, locals) ==
    /\ pc' = [pc EXCEPT ![t] = label]
    /\ loc' = [loc EXCEPT ![t] = locals]
    /\ ret' = [ret EXCEPT ![t] = "none"]

Goto(t, label, locals) ==
    /\ pc' = [pc EXCEPT ![t] = label]
    /\ loc' = [loc EXCEPT ![t] = locals]
    /\ UNCHANGED ret

\* lines 73-123: validation, userRepo.GetByID, balance check
PlaceBetStart(t, userID, req) ==
    /\ pc[t] = "idle"
    /\ betsLeft > 0
    /\ UNCHANGED <<faults, users, games, bets, results, wallet, playsLeft, now>>
    /\ IF PlaceBetValidation(Floats(req)) # {}
       THEN /\ \E e \in PlaceBetValidation(Floats(req)) : Return(t, e)
            /\ UNCHANGED betsLeft
       ELSE IF RLt(users[userID], Rat(TotalBetAmount(req)))
       THEN /\ Return(t, "insufficient balance")
            /\ UNCHANGED betsLeft
       ELSE /\ Call(t, "pb_get_current_game",
                    [IdleLoc EXCEPT !.user = userID, !.req = req,
                                    !.totalBetAmount = Rat(TotalBetAmount(req)),
                                    !.balance = users[userID]])
            /\ betsLeft' = betsLeft - 1

\* lines 156-159 and the setup of the bet loop
CheckHouseWallet(t, locals) ==
    IF RLe(locals.game.houseWallet, Zero)
    THEN Return(t, "house wallet is empty")
    ELSE Goto(t, "pb_create_bet", [locals EXCEPT !.todo = DOMAIN locals.req])

\* lines 126-131 (and 156-159 when a game is found): gameRepo.GetCurrentGame
PlaceBetGetCurrentGame(t) ==
    /\ pc[t] = "pb_get_current_game"
    /\ UNCHANGED <<faults, users, games, bets, results, wallet, betsLeft, playsLeft, now>>
    /\ LET g == GetCurrentGame(games)
       IN  IF g = 0
           THEN Goto(t, "pb_get_house_wallet", loc[t])
           ELSE CheckHouseWallet(t, [loc[t] EXCEPT !.currentGame = g, !.game = games[g]])

\* lines 133-149: gameRepo.GetHouseWallet and the new game built from it
PlaceBetGetHouseWallet(t) ==
    /\ pc[t] = "pb_get_house_wallet"
    /\ wallet' = GetHouseWallet(wallet)
    /\ UNCHANGED <<faults, users, games, bets, results, betsLeft, playsLeft, now>>
    /\ Goto(t, "pb_create_game",
            [loc[t] EXCEPT !.game = [NoGame EXCEPT !.status = "active",
                                        !.houseWallet = wallet'.balance,
                                        !.adminProfit = wallet'.adminProfit,
                                        !.totalBets = wallet'.totalBets]])

\* lines 151-159: gameRepo.CreateGame, then the house wallet check
PlaceBetCreateGame(t) ==
    /\ pc[t] = "pb_create_game"
    /\ LET created == [loc[t].game EXCEPT !.createdAt = now]
       IN  /\ games' = Append(games, created)
           /\ CheckHouseWallet(t, [loc[t] EXCEPT !.currentGame = Len(games) + 1,
                                                 !.game = created])
    /\ UNCHANGED <<faults, users, bets, results, wallet, betsLeft, playsLeft, now>>

\* lines 162-175: one gameRepo.CreateBet of the loop over req.BallBets (the
\* map is ranged in ascending order of ball id)
PlaceBetCreateBet(t) ==
    /\ pc[t] = "pb_create_bet"
    /\ LET ballID == CHOOSE b \in loc[t].todo : \A c \in loc[t].todo : b <= c
       IN  /\ bets' = Append(bets, [userID |-> loc[t].user,
                                    gameID |-> loc[t].currentGame,
                                    ballID |-> ballID,
                                    amount |-> loc[t].req[ballID],
                                    status |-> "pending"])
           /\ Goto(t, IF loc[t].todo = {ballID} THEN "pb_update_user" ELSE "pb_create_bet",
                   [loc[t] EXCEPT !.todo = @ \ {ballID}])
    /\ UNCHANGED <<faults, users, games, results, wallet, betsLeft, playsLeft, now>>

\* lines 177-189: user.SubtractFromBalance on the balance read at line 116,
\* then userRepo.Update writing it
PlaceBetUpdateUser(t) ==
    /\ pc[t] = "pb_update_user"
    /\ IF CanSubtract(loc[t].balance, loc[t].totalBetAmount)
       THEN /\ users' = [users EXCEPT ![loc[t].user] =
                            SubtractFromBalance(loc[t].balance, loc[t].totalBetAmount)]
            /\ Goto(t, "pb_update_game", loc[t])
       ELSE /\ UNCHANGED users
            /\ Return(t, "insufficient balance")
    /\ UNCHANGED <<faults, games, bets, results, wallet, betsLeft, playsLeft, now>>

\* lines 191-200: gameRepo.UpdateGame writing total_bets from the game read earlier
PlaceBetUpdateGame(t) ==
    /\ pc[t] = "pb_update_game"
    /\ games' = [games EXCEPT ![loc[t].currentGame].totalBets =
                    RAdd(loc[t].game.totalBets, loc[t].totalBetAmount)]
    /\ Return(t, "ok")
    /\ UNCHANGED <<faults, users, bets, results, wallet, betsLeft, playsLeft, now>>

---------------------------------------------------------------------------
(* models.Bet helpers *)

CalculateWinAmount(amount, multiplier) == RMul(amount, multiplier)

\* variant of CalculateProfit: the stake is not taken off the win amount
CalculateProfitGross(amount, multiplier) == CalculateWinAmount(amount, multiplier)

\* lines 208-212
CalculateProfit(amount, multiplier) == RSub(CalculateWinAmount(amount, multiplier), amount)

\* variant of IsWin: a 2x basket does not count as a win
IsWinStrict(multiplier) == RLt(Rat(2), multiplier)

\* lines 214-217
IsWin(multiplier) == RLe(Rat(2), multiplier)

\* variant of IsPush: every multiplier up to 1x counts as a push
IsPushAtMost(multiplier) == RLe(multiplier, Rat(1))

\* lines 219-222
IsPush(multiplier) == multiplier = Rat(1)

\* lines 224-227
IsLoss(multiplier) == RLt(multiplier, Rat(1))

---------------------------------------------------------------------------
(* GameService.PlayGame *)

\* variant of IsStale: no game is ever stale
IsStaleNever(game) == FALSE

\* line 216: time.Since(game.CreatedAt) > 30*time.Minute; one tick of the
\* clock is a lapse longer than the staleness window
IsStale(game) == now - game.createdAt >= 1

BallsWithBets(bs) == {bs[i].ballID : i \in DOMAIN bs}

\* lines 237-241: ballBets[ballID], the bets on one ball in stored order
BallBets(bs, ballID) == SelectSeq(bs, LAMBDA b : b.ballID = ballID)

RECURSIVE SumBetAmounts(_)
SumBetAmounts(bs) ==
    IF bs = <<>> THEN 0 ELSE Head(bs).amount + SumBetAmounts(Tail(bs))

\* lines 247-257: ballTargets, the baskets the balls with bets can be given
RECURSIVE TargetChoices(_, _, _)
TargetChoices(bs, houseWallet, ballIDs) ==
    IF ballIDs = {} THEN {<<>>}
    ELSE LET ballID == CHOOSE b \in ballIDs : TRUE
             possible == PossibleBaskets(Rat(SumBetAmounts(BallBets(bs, ballID))), houseWallet)
             others == TargetChoices(bs, houseWallet, ballIDs \ {ballID})
         IN  {(ballID :> basket) @@ rest : basket \in possible, rest \in others}

BallTargetChoices(bs, houseWallet) == TargetChoices(bs, houseWallet, BallsWithBets(bs))

\* the keys of a map in ascending order, the order in which the model ranges it
RECURSIVE MapOrder(_)
MapOrder(S) ==
    IF S = {} THEN <<>>
    ELSE LET k == CHOOSE x \in S : \A y \in S : x <= y
         IN  <<k>> \o MapOrder(S \ {k})

\* lines 296-320: the first-pass result of one bet
TempResult(bet, gameID, basketIndex) ==
    LET multiplier == BasketValue(basketIndex)
    IN  [userID |-> bet.userID, gameID |-> gameID, ballID |-> bet.ballID,
         betAmount |-> Rat(bet.amount),
         multiplier |-> multiplier,
         winAmount |-> CalculateWinAmount(Rat(bet.amount), multiplier),
         profit |-> CalculateProfit(Rat(bet.amount), multiplier),
         basketLanded |-> basketIndex,
         won |-> IsWin(multiplier),
         pushed |-> IsPush(multiplier),
         walletLimited |-> FALSE]

RECURSIVE MapTemp(_, _, _)
MapTemp(bs, gameID, basketIndex) ==
    IF bs = <<>> THEN <<>>
    ELSE <<TempResult(Head(bs), gameID, basketIndex)>>
            \o MapTemp(Tail(bs), gameID, basketIndex)

\* variant of TempResults: every bet is scored with the basket of the first
\* ball of the map
TempResultsFirstBasket(bs, gameID, ballTargets, order) ==
    IF order = <<>> THEN <<>>
    ELSE MapTemp(bs, gameID, ballTargets[Head(order)])

\* lines 290-322: tempResults, ball by ball in the map's order
RECURSIVE TempResults(_, _, _, _)
TempResults(bs, gameID, ballTargets, order) ==
    IF order = <<>> THEN <<>>
    ELSE MapTemp(BallBets(bs, Head(order)), gameID, ballTargets[Head(order)])
            \o TempResults(bs, gameID, ballTargets, Tail(order))

\* lines 286, 300-302: totalWins
RECURSIVE TotalWins(_)
TotalWins(rs) ==
    IF rs = <<>> THEN Zero
    ELSE RAdd(IF Head(rs).won /\ RLt(Zero, Head(rs).profit) THEN Head(rs).profit ELSE Zero,
              TotalWins(Tail(rs)))

\* variant of MaxAllowedWin: a quarter of the house wallet instead of a fifth
MaxAllowedWinQuarter(houseWallet) == RMul(houseWallet, <<1, 4>>)

\* line 285
MaxAllowedWin(houseWallet) == RMul(houseWallet, WalletShare)

\* variant of WalletLimitFactor: the limit is never applied
WalletLimitFactorNoCap(totalWins, maxAllowedWin) == Rat(1)

\* lines 324-328
WalletLimitFactor(totalWins, maxAllowedWin) ==
    IF RLt(maxAllowedWin, totalWins) THEN RDiv(maxAllowedWin, totalWins) ELSE Rat(1)

\* variant of FinalResult: the limit factor is applied to the profit of every
\* result that is not a push, losses included
FinalResultScaleAll(result, walletLimitFactor) ==
    LET finalProfit == IF result.pushed THEN Zero
                       ELSE RMul(result.profit, walletLimitFactor)
        finalWinAmount == RAdd(result.betAmount, finalProfit)
    IN  [result EXCEPT !.profit = finalProfit,
                       !.winAmount = finalWinAmount,
                       !.multiplier = RDiv(finalWinAmount, result.betAmount),
                       !.walletLimited = result.won /\ RLt(Zero, result.profit)
                                            /\ RLt(walletLimitFactor, Rat(1))]

\* lines 332-346: the second pass on one result
FinalResult(result, walletLimitFactor) ==
    LET isWinner == result.won /\ RLt(Zero, result.profit)
        finalProfit == IF isWinner THEN RMul(result.profit, walletLimitFactor)
                       ELSE IF result.pushed THEN Zero
                       ELSE result.profit
        finalWinAmount == IF isWinner THEN RAdd(result.betAmount, finalProfit)
                          ELSE IF result.pushed THEN result.betAmount
                          ELSE result.winAmount
    IN  [result EXCEPT !.profit = finalProfit,
                       !.winAmount = finalWinAmount,
                       !.multiplier = RDiv(finalWinAmount, result.betAmount),
                       !.walletLimited = isWinner /\ RLt(walletLimitFactor, Rat(1))]

\* lines 360-365
BetStatus(result) ==
    IF result.won THEN "won" ELSE IF result.pushed THEN "pushed" ELSE "lost"

\* lines 385-392: netHouseChange before the admin profit is taken
RECURSIVE NetHouseChange(_, _)
NetHouseChange(rs, walletLimitFactor) ==
    IF rs = <<>> THEN Zero
    ELSE LET profit == FinalResult(Head(rs), walletLimitFactor).profit
         IN  RAdd(IF RLt(Zero, profit) THEN RSub(Zero, profit) ELSE RAbs(profit),
                  NetHouseChange(Tail(rs), walletLimitFactor))

\* line 396
AdminProfit(game, adminProfitRate) == RMul(game.totalBets, adminProfitRate)

\* lines 206-225: gameRepo.GetGameByID, status check, staleness check
PlayGameStart(t, gameID) ==
    /\ pc[t] = "idle"
    /\ playsLeft > 0
    /\ gameID \in DOMAIN games
    /\ UNCHANGED <<faults, users, games, bets, results, wallet, betsLeft, now>>
    /\ LET game == games[gameID]
           locals == [IdleLoc EXCEPT !.currentGame = gameID, !.game = game]
       IN  IF game.status # "active"
           THEN Return(t, "game is not active") /\ UNCHANGED playsLeft
           ELSE /\ playsLeft' = playsLeft - 1
                /\ IF IsStale(game) THEN Call(t, "pg_expire", locals)
                   ELSE Call(t, "pg_get_bets", locals)

\* lines 217-224: gameRepo.UpdateGame of a stale game
PlayGameExpire(t) ==
    /\ pc[t] = "pg_expire"
    /\ games' = [games EXCEPT ![loc[t].currentGame].status = "completed"]
    /\ Return(t, "game has expired due to inactivity")
    /\ UNCHANGED <<faults, users, bets, results, wallet, betsLeft, playsLeft, now>>

\* variant of PlayGameGetBets: a round found without bets is closed
PlayGameGetBetsClosing(t) ==
    /\ pc[t] = "pg_get_bets"
    /\ UNCHANGED <<faults, users, bets, results, wallet, betsLeft, playsLeft, now>>
    /\ LET found == GetBetsByGameID(bets, loc[t].currentGame)
       IN  IF found = <<>>
           THEN /\ games' = [games EXCEPT ![loc[t].currentGame].status = "completed"]
                /\ Return(t, "no bets found for this game")
           ELSE /\ UNCHANGED games
                /\ Goto(t, "pg_update_game", [loc[t] EXCEPT !.bets = [i \in DOMAIN found |-> bets[found[i]]]])

\* lines 228-235: gameRepo.GetBetsByGameID
PlayGameGetBets(t) ==
    /\ pc[t] = "pg_get_bets"
    /\ UNCHANGED <<faults, users, games, bets, results, wallet, betsLeft, playsLeft, now>>
    /\ LET found == GetBetsByGameID(bets, loc[t].currentGame)
       IN  IF found = <<>> THEN Return(t, "no bets found for this game")
           ELSE Goto(t, "pg_update_game", [loc[t] EXCEPT !.bets = [i \in DOMAIN found |-> bets[found[i]]]])

\* lines 237-328: baskets per ball, winning ball, gameRepo.UpdateGame, first pass
PlayGameUpdateGame(t) ==
    /\ pc[t] = "pg_update_game"
    /\ \E ballTargets \in BallTargetChoices(loc[t].bets, loc[t].game.houseWallet),
          winningBallID \in BallsWithBets(loc[t].bets) :
          LET tempResults == TempResults(loc[t].bets, loc[t].currentGame, ballTargets,
                                         MapOrder(BallsWithBets(loc[t].bets)))
          IN  /\ games' = [games EXCEPT ![loc[t].currentGame] =
                              [@ EXCEPT !.status = "completed",
                                        !.winningBallID = winningBallID,
                                        !.winningBasketID = ballTargets[winningBallID]]]
              /\ Goto(t, "pg_get_user",
                      [loc[t] EXCEPT !.tempResults = tempResults,
                                     !.walletLimitFactor =
                                         WalletLimitFactor(TotalWins(tempResults),
                                                           MaxAllowedWin(loc[t].game.houseWallet)),
                                     !.idx = 1])
    /\ UNCHANGED <<faults, users, bets, results, wallet, betsLeft, playsLeft, now>>

\* line 349: userRepo.GetByID of the owner of the current result
PlayGameGetUser(t) ==
    /\ pc[t] = "pg_get_user"
    /\ Goto(t, "pg_update_user",
            [loc[t] EXCEPT !.user = loc[t].tempResults[loc[t].idx].userID,
                           !.balance = users[loc[t].tempResults[loc[t].idx].userID]])
    /\ UNCHANGED <<faults, users, games, bets, results, wallet, betsLeft, playsLeft, now>>

\* lines 351-356: user.AddToBalance(finalProfit) and userRepo.Update
PlayGameUpdateUser(t) ==
    /\ pc[t] = "pg_update_user"
    /\ LET result == FinalResult(loc[t].tempResults[loc[t].idx], loc[t].walletLimitFactor)
       IN  users' = [users EXCEPT ![loc[t].user] = AddToBalance(loc[t].balance, result.profit)]
    /\ Goto(t, "pg_create_result", loc[t])
    /\ UNCHANGED <<faults, games, bets, results, wallet, betsLeft, playsLeft, now>>

\* lines 359-380: gameRepo.UpdateBet, addressed to a newly generated id,
\* gameRepo.CreateGameResult, and the end of one iteration
PlayGameCreateResult(t) ==
    /\ pc[t] = "pg_create_result"
    /\ LET result == FinalResult(loc[t].tempResults[loc[t].idx], loc[t].walletLimitFactor)
       IN  /\ bets' = UpdateBet(bets, NewObjectID, BetStatus(result))
           /\ results' = Append(results, result)
    /\ IF loc[t].idx < Len(loc[t].tempResults)
       THEN Goto(t, "pg_get_user", [loc[t] EXCEPT !.idx = @ + 1])
       ELSE Goto(t, "pg_get_house_wallet", loc[t])
    /\ UNCHANGED <<faults, users, games, wallet, betsLeft, playsLeft, now>>

\* line 383: gameRepo.GetHouseWallet
PlayGameGetHouseWallet(t) ==
    /\ pc[t] = "pg_get_house_wallet"
    /\ wallet' = GetHouseWallet(wallet)
    /\ Goto(t, "pg_update_house_wallet", [loc[t] EXCEPT !.houseWallet = wallet'])
    /\ UNCHANGED <<faults, users, games, bets, results, betsLeft, playsLeft, now>>

\* lines 385-407: netHouseChange, admin profit, gameRepo.UpdateHouseWallet
PlayGameUpdateHouseWallet(t) ==
    /\ pc[t] = "pg_update_house_wallet"
    /\ \E adminProfitRate \in AdminProfitRates :
          LET adminProfit == AdminProfit(loc[t].game, adminProfitRate)
              netHouseChange ==
                  RSub(NetHouseChange(loc[t].tempResults, loc[t].walletLimitFactor), adminProfit)
          IN  wallet' = [wallet EXCEPT
                  !.balance = RAdd(loc[t].houseWallet.balance, netHouseChange),
                  !.adminProfit = RAdd(loc[t].houseWallet.adminProfit, adminProfit),
                  !.totalBets = RAdd(loc[t].houseWallet.totalBets, loc[t].game.totalBets)]
    /\ Return(t, "ok")
    /\ UNCHANGED <<faults, users, games, bets, results, betsLeft, playsLeft, now>>

---------------------------------------------------------------------------
(* Repository calls that return an error *)

RepositoryError == "repository error"

PlaceBetLabels == {"pb_get_current_game", "pb_get_house_wallet", "pb_create_game",
                   "pb_create_bet", "pb_update_user", "pb_update_game"}

PlayGameLabels == {"pg_expire", "pg_get_bets", "pg_update_game", "pg_get_user",
                   "pg_update_user", "pg_create_result", "pg_get_house_wallet",
                   "pg_update_house_wallet"}

\* lines 116-119 and 206-209: the first read of PlaceBet (userRepo.GetByID) or
\* of PlayGame (gameRepo.GetGameByID) fails and the call returns the error
EntryFault(t) ==
    /\ pc[t] = "idle"
    /\ faults > 0
    /\ faults' = faults - 1
    /\ Return(t, RepositoryError)
    /\ UNCHANGED <<users, games, bets, results, wallet, betsLeft, playsLeft, now>>

\* lines 127-129, 143-145, 151-153, 172-174, 187-189, 196-198: the pending
\* repository call of PlaceBet fails; PlaceBet returns the error and leaves
\* what its earlier calls wrote
PlaceBetFault(t) ==
    /\ pc[t] \in PlaceBetLabels
    /\ faults > 0
    /\ faults' = faults - 1
    /\ Return(t, RepositoryError)
    /\ UNCHANGED <<users, games, bets, results, wallet, betsLeft, playsLeft, now>>

\* the pending repository call of PlayGame fails: the error is returned after
\* GetBetsByGameID (229-231) and the UpdateGame of line 279 (279-281), and
\* dropped after the UpdateGame of line 223, GetByID (349-350), Update (356),
\* CreateGameResult (374-377), GetHouseWallet (383-384) and UpdateHouseWallet
\* (404)
PlayGameFault(t) ==
    /\ pc[t] \in PlayGameLabels
    /\ faults > 0
    /\ faults' = faults - 1
    /\ UNCHANGED <<users, games, bets, results, wallet, betsLeft, playsLeft, now>>
    /\ CASE pc[t] = "pg_expire" -> Return(t, "game has expired due to inactivity")
         [] pc[t] \in {"pg_get_bets", "pg_update_game"} -> Return(t, RepositoryError)
         [] pc[t] \in {"pg_get_user", "pg_update_user"} -> Goto(t, "pg_create_result", loc[t])
         [] pc[t] = "pg_create_result" ->
                IF loc[t].idx < Len(loc[t].tempResults)
                THEN Goto(t, "pg_get_user", [loc[t] EXCEPT !.idx = @ + 1])
                ELSE Goto(t, "pg_get_house_wallet", loc[t])
         [] pc[t] \in {"pg_get_house_wallet", "pg_update_house_wallet"} -> Return(t, "ok")

---------------------------------------------------------------------------
(* GameController.PlaceBet: the checks a bet request passes before a store is read *)

\* the requests the checks are run on: every map from a set of ball ids
\* (4 is not a ball) to these amounts
FloatBallIds == Balls \cup {4}
FloatAmounts == {Zero, <<1, 2>>, Rat(1), <<19, 2>>, Rat(100), Rat(1000), Rat(1001), Rat(5000)}
FloatRequests == UNION {[S -> FloatAmounts] : S \in SUBSET FloatBallIds}

\* controller lines 61-76 and service lines 73-113: req.Validate(), then
\* the validation at the head of GameService.PlaceBet; "accepted" when the
\* request reaches the balance check of line 116
ControllerPlaceBet(t) ==
    /\ pc[t] = "bet_request"
    /\ pc' = [pc EXCEPT ![t] = "bet_answered"]
    /\ \E answer \in (IF Validate(loc[t].req) # {} THEN Validate(loc[t].req)
                       ELSE IF PlaceBetValidation(loc[t].req) # {}
                       THEN PlaceBetValidation(loc[t].req)
                       ELSE {"accepted"}) :
          ret' = [ret EXCEPT ![t] = answer]
    /\ UNCHANGED <<faults, users, games, bets, results, wallet, loc, betsLeft, playsLeft, now>>

---------------------------------------------------------------------------
(* models.CalculateWinningBasket called on its own *)

\* the totals bet on a ball and the house balances the selector is called
\* with: 0.20 * balance / total falls below, on and between the multipliers
\* of the catalog
SelectorWagers == {Zero, <<1, 2>>, Rat(1), Rat(10), Rat(50), Rat(100)}
SelectorBalances == {Rat(-100), Zero, Rat(40), Rat(100), Rat(150), Rat(200),
                     Rat(300), Rat(400), Rat(450), Rat(500), Rat(1000)}

\* one call of CalculateWinningBasket; nano is the reading of
\* time.Now().UnixNano() at line 186
SelectBasket(t, nano) ==
    /\ pc[t] = "select"
    /\ pc' = [pc EXCEPT ![t] = "selected"]
    /\ loc' = [loc EXCEPT ![t].nano = nano]
    /\ ret' = [ret EXCEPT ![t] = CalculateWinningBasket(loc[t].totalPlayerBets,
                                                        loc[t].currentWallet, nano)]
    /\ UNCHANGED <<faults, users, games, bets, results, wallet, betsLeft, playsLeft, now>>

---------------------------------------------------------------------------
(* The clock *)

\* A lapse longer than the staleness window.  The clock is read only to
\* stamp a new game and to age an active one, so a lapse shows only when an
\* active game is not stale yet.
Tick ==
    /\ now < MaxNow
    /\ \E g \in DOMAIN games : games[g].status = "active" /\ ~IsStale(games[g])
    /\ now' = now + 1
    /\ UNCHANGED <<faults, users, games, bets, results, wallet, pc, loc, ret, betsLeft, playsLeft>>

---------------------------------------------------------------------------
(* Specifications *)

InitStore ==
    /\ users = [u \in Users |-> Rat(InitBalance)]
    /\ games = <<>>
    /\ bets = <<>>
    /\ results = <<>>
    /\ wallet = NoWallet
    /\ now = 0

InitHandlers(ids) ==
    /\ pc = [t \in ids |-> "idle"]
    /\ loc = [t \in ids |-> IdleLoc]
    /\ ret = [t \in ids |-> "none"]

\* one request at a time
Init ==
    /\ InitStore
    /\ InitHandlers({1})
    /\ betsLeft = MaxBets
    /\ playsLeft = MaxPlays
    /\ faults = 0

\* The store after DepletingRounds rounds played one after the other, in each
\* of which user 1 bets 10 on ball 1 and the ball lands in the 1x basket: a
\* round moves only the admin profit out of the house balance, and the
\* wallet's total_bets, which seeds total_bets of the next game (line 149),
\* doubles with every round (line 402).
PushBet(gameID) ==
    [userID |-> 1, gameID |-> gameID, ballID |-> 1, amount |-> 10, status |-> "pending"]

PushRate == CHOOSE rate \in AdminProfitRates : TRUE

RECURSIVE PushWallet(_)
PushWallet(n) ==
    IF n = 0 THEN GetHouseWallet(NoWallet)
    ELSE LET before == PushWallet(n - 1)
             gameTotalBets == RAdd(before.totalBets, Rat(10))
             adminProfit == RMul(gameTotalBets, PushRate)
         IN  [present |-> TRUE,
              balance |-> RSub(before.balance, adminProfit),
              adminProfit |-> RAdd(before.adminProfit, adminProfit),
              totalBets |-> RAdd(before.totalBets, gameTotalBets)]

PushGame(n) ==
    LET before == PushWallet(n - 1)
    IN  [status |-> "completed", winningBallID |-> 1, winningBasketID |-> 3,
         totalBets |-> RAdd(before.totalBets, Rat(10)),
         houseWallet |-> before.balance, adminProfit |-> before.adminProfit,
         createdAt |-> 0]

PushResult(n) == FinalResult(TempResult(PushBet(n), n, 3), Rat(1))

\* one request at a time, from the fresh store or from the store with the
\* house balance run down below zero
InitDepleted ==
    /\ \/ InitStore
       \/ /\ users = [u \in Users |->
                         Rat(IF u = 1 THEN InitBalance - 10 * DepletingRounds ELSE InitBalance)]
          /\ games = [n \in 1..DepletingRounds |-> PushGame(n)]
          /\ bets = [n \in 1..DepletingRounds |-> PushBet(n)]
          /\ results = [n \in 1..DepletingRounds |-> PushResult(n)]
          /\ wallet = PushWallet(DepletingRounds)
          /\ now = 0
    /\ InitHandlers({1})
    /\ betsLeft = MaxBets
    /\ playsLeft = MaxPlays
    /\ faults = 0

\* The store after the first round was played: user 1 bet 10 on ball 1 and
\* the ball landed in the 1x basket.
PlayedStore ==
    /\ users = [u \in Users |-> Rat(IF u = 1 THEN InitBalance - 10 ELSE InitBalance)]
    /\ games = <<PushGame(1)>>
    /\ bets = <<PushBet(1)>>
    /\ results = <<PushResult(1)>>
    /\ wallet = PushWallet(1)
    /\ now = 0

\* The store with the first round open: user 1 bet 10 on ball 1 (PlaceBet
\* created the wallet and the game, inserted the bet, debited the user and
\* wrote total_bets) and the round has not been played.
OpenStore ==
    /\ users = [u \in Users |-> Rat(IF u = 1 THEN InitBalance - 10 ELSE InitBalance)]
    /\ games = <<[NoGame EXCEPT !.status = "active",
                                !.houseWallet = GetHouseWallet(NoWallet).balance,
                                !.totalBets = Rat(10)]>>
    /\ bets = <<PushBet(1)>>
    /\ results = <<>>
    /\ wallet = GetHouseWallet(NoWallet)
    /\ now = 0

\* one request at a time, after an earlier round: played, or still open
InitHistory ==
    /\ PlayedStore \/ OpenStore
    /\ InitHandlers({1})
    /\ betsLeft = MaxBets
    /\ playsLeft = MaxPlays
    /\ faults = 0

\* one bet request at the controller, before any store is read
InitValidate ==
    /\ InitStore
    /\ pc = [t \in {1} |-> "bet_request"]
    /\ \E req \in FloatRequests : loc = [t \in {1} |-> [IdleLoc EXCEPT !.req = req]]
    /\ ret = [t \in {1} |-> "none"]
    /\ betsLeft = 0
    /\ playsLeft = 0
    /\ faults = 0

\* one call of the selector about to be made
InitSelector ==
    /\ InitStore
    /\ pc = [t \in {1} |-> "select"]
    /\ \E totalPlayerBets \in SelectorWagers, currentWallet \in SelectorBalances :
          loc = [t \in {1} |-> [totalPlayerBets |-> totalPlayerBets,
                                currentWallet |-> currentWallet, nano |-> 0]]
    /\ ret = [t \in {1} |-> "none"]
    /\ betsLeft = 0
    /\ playsLeft = 0
    /\ faults = 0

\* one request at a time, with repository calls that can fail
InitFault ==
    /\ InitStore
    /\ InitHandlers({1})
    /\ betsLeft = MaxBets
    /\ playsLeft = MaxPlays
    /\ faults = MaxFaults

\* the call budgets of the runs with concurrent requests: one call more than
\* the sequential budget, of either kind
ConcBudgets == {<<MaxBets + 1, MaxPlays>>, <<MaxBets, MaxPlays + 1>>}

\* NThreads requests in flight
InitConc ==
    /\ InitStore
    /\ InitHandlers(HandlerIds)
    /\ \E budget \in ConcBudgets : betsLeft = budget[1] /\ playsLeft = budget[2]
    /\ faults = 0

\* the steps of the running calls, the entry of PlayGame, and the clock
Steps ==
    \/ \E t \in DOMAIN pc : PlaceBetGetCurrentGame(t)
    \/ \E t \in DOMAIN pc : PlaceBetGetHouseWallet(t)
    \/ \E t \in DOMAIN pc : PlaceBetCreateGame(t)
    \/ \E t \in DOMAIN pc : PlaceBetCreateBet(t)
    \/ \E t \in DOMAIN pc : PlaceBetUpdateUser(t)
    \/ \E t \in DOMAIN pc : PlaceBetUpdateGame(t)
    \/ \E t \in DOMAIN pc, gameID \in DOMAIN games : PlayGameStart(t, gameID)
    \/ \E t \in DOMAIN pc : PlayGameExpire(t)
    \/ \E t \in DOMAIN pc : PlayGameGetBets(t)
    \/ \E t \in DOMAIN pc : PlayGameUpdateGame(t)
    \/ \E t \in DOMAIN pc : PlayGameGetUser(t)
    \/ \E t \in DOMAIN pc : PlayGameUpdateUser(t)
    \/ \E t \in DOMAIN pc : PlayGameCreateResult(t)
    \/ \E t \in DOMAIN pc : PlayGameGetHouseWallet(t)
    \/ \E t \in DOMAIN pc : PlayGameUpdateHouseWallet(t)
    \/ Tick

Next ==
    \/ \E t \in DOMAIN pc, userID \in Users, req \in Requests : PlaceBetStart(t, userID, req)
    \/ Steps

NextConc ==
    \/ \E t \in DOMAIN pc, userID \in Users, req \in ConcRequests : PlaceBetStart(t, userID, req)
    \/ Steps

NextFault ==
    \/ \E t \in DOMAIN pc, userID \in Users, req \in Requests : PlaceBetStart(t, userID, req)
    \/ Steps
    \/ \E t \in DOMAIN pc : EntryFault(t)
    \/ \E t \in DOMAIN pc : PlaceBetFault(t)
    \/ \E t \in DOMAIN pc : PlayGameFault(t)

Spec == Init /\ [][Next]_vars

SpecFault == InitFault /\ [][NextFault]_vars

SpecDepleted == InitDepleted /\ [][Next]_vars

SpecConc == InitConc /\ [][NextConc]_vars

SpecHistory == InitHistory /\ [][Next]_vars

NextSelector == \E t \in DOMAIN pc, nano \in 0..MaxNano : SelectBasket(t, nano)

SpecSelector == InitSelector /\ [][NextSelector]_vars

NextValidate == \E t \in DOMAIN pc : ControllerPlaceBet(t)

SpecValidate == InitValidate /\ [][NextValidate]_vars

---------------------------------------------------------------------------
(* Vocabulary of the properties *)

AllIdle == \A t \in DOMAIN pc : pc[t] = "idle"

ResultsOf(gameID) == SelectSeq(results, LAMBDA r : r.gameID = gameID)
BetsOf(gameID) == SelectSeq(bets, LAMBDA b : b.gameID = gameID)
ResultsOfUser(userID) == SelectSeq(results, LAMBDA r : r.userID = userID)
BetsOfUser(userID) == SelectSeq(bets, LAMBDA b : b.userID = userID)

RECURSIVE SumProfit(_)
SumProfit(rs) == IF rs = <<>> THEN Zero ELSE RAdd(Head(rs).profit, SumProfit(Tail(rs)))

\* a bet is a winning bet when the basket its ball landed in pays 2x or more
LandedWin(r) == RLe(Rat(2), BasketValue(r.basketLanded))
LandedPush(r) == BasketValue(r.basketLanded) = Rat(1)

\* the profit the landed basket pays on the stake before any limit
NominalProfit(r) == RSub(RMul(r.betAmount, BasketValue(r.basketLanded)), r.betAmount)

\* profits paid to the winning bets of a round
PaidWins(gameID) == SumProfit(SelectSeq(ResultsOf(gameID), LandedWin))

RECURSIVE SumNominal(_)
SumNominal(rs) ==
    IF rs = <<>> THEN Zero ELSE RAdd(NominalProfit(Head(rs)), SumNominal(Tail(rs)))

NominalWins(gameID) == SumNominal(SelectSeq(ResultsOf(gameID), LandedWin))

RoundCap(gameID) == RMul(<<1, 5>>, games[gameID].houseWallet)

\* the step of PlayGame that writes the house wallet
WalletWritten == \E t \in DOMAIN pc : pc[t] = "pg_update_house_wallet" /\ pc'[t] = "idle"

\* every bet of the round has its result and no request is running
RoundSettled(gameID) ==
    /\ AllIdle
    /\ games[gameID].status = "completed"
    /\ BetsOf(gameID) # <<>>
    /\ Len(ResultsOf(gameID)) = Len(BetsOf(gameID))

RECURSIVE SumBalances(_)
SumBalances(S) ==
    IF S = {} THEN Zero
    ELSE LET u == CHOOSE x \in S : TRUE IN RAdd(users[u], SumBalances(S \ {u}))

\* user balances + house balance + cumulative admin profit
TotalSystemValue ==
    RAdd(SumBalances(Users),
         RAdd(GetHouseWallet(wallet).balance, GetHouseWallet(wallet).adminProfit))

InitialSystemValue == Rat(NUsers * InitBalance + InitialHouseWallet)

---------------------------------------------------------------------------
(* Claims *)

\* C1 (as stated): the house balance written by PlayGame when it settles a
\* round is at least 80% of the house balance just before that write.
C1_SolvencyPerRound ==
    [][WalletWritten => RLe(RMul(<<4, 5>>, wallet.balance), wallet'.balance)]_vars

\* C1 (amended): with requests served one at a time, the house balance
\* written by PlayGame is at least 80% of the balance just before, less the
\* admin skim the same write adds to adminProfit.
C1_SolvencyNetOfSkim ==
    [][WalletWritten =>
          RLe(RSub(RMul(<<4, 5>>, wallet.balance),
                   RSub(wallet'.adminProfit, wallet.adminProfit)),
              wallet'.balance)]_vars

\* C1 witness: a settlement paid capped winnings and left the house below
\* 80% of its initial balance.
C1_Witness ==
    /\ AllIdle
    /\ RLt(Zero, wallet.adminProfit)
    /\ RLt(wallet.balance, Rat(800))
    /\ \E i \in DOMAIN results : results[i].walletLimited

\* C2: in every round the profits paid to winning bets sum to at most 20% of
\* the house balance snapshotted in the round.
C2_MaxWinPerGame ==
    \A g \in DOMAIN games : RLe(PaidWins(g), RoundCap(g))

\* C2 witness: a settled round with two winners whose paid profits sum to
\* exactly the cap.
C2_Witness ==
    \E g \in DOMAIN games :
        /\ RoundSettled(g)
        /\ Len(SelectSeq(ResultsOf(g), LandedWin)) >= 2
        /\ PaidWins(g) = RoundCap(g)

\* C3: in a settled round, when the nominal profits of the winning bets sum
\* to more than the cap, each winner is paid nominal * cap / total and is
\* flagged walletLimited; otherwise each winner is paid its nominal profit
\* and no result is flagged; pushes have profit 0 and losses keep their
\* nominal profit, unflagged, in both cases.
C3_CapScaling ==
    \A g \in DOMAIN games : RoundSettled(g) =>
        LET rs == ResultsOf(g)
            over == RLt(RoundCap(g), NominalWins(g))
        IN  \A i \in DOMAIN rs :
                IF LandedWin(rs[i])
                THEN IF over
                     THEN /\ rs[i].profit = RMul(NominalProfit(rs[i]),
                                                 RDiv(RoundCap(g), NominalWins(g)))
                          /\ rs[i].walletLimited
                     ELSE /\ rs[i].profit = NominalProfit(rs[i])
                          /\ ~rs[i].walletLimited
                ELSE /\ ~rs[i].walletLimited
                     /\ rs[i].profit = IF LandedPush(rs[i]) THEN Zero
                                       ELSE NominalProfit(rs[i])

\* C3 witness: a settled round over the cap with a scaled winner next to a
\* losing bet.
C3_Witness ==
    \E g \in DOMAIN games :
        /\ RoundSettled(g)
        /\ RLt(RoundCap(g), NominalWins(g))
        /\ \E i, j \in DOMAIN results :
              /\ results[i].gameID = g /\ results[j].gameID = g
              /\ results[i].walletLimited
              /\ RLt(results[j].profit, Zero)

\* C4: once every round with bets is settled, the total system value (user
\* balances + house balance + admin profit) equals its initial value.
C4_Conservation ==
    (/\ AllIdle
     /\ \A g \in DOMAIN games : BetsOf(g) # <<>> => RoundSettled(g))
        => TotalSystemValue = InitialSystemValue

\* C5: no user-balance write of PlayGame lowers a balance.
C5_SettlementOnlyCredits ==
    [][\A t \in DOMAIN pc : pc[t] = "pg_update_user" =>
          \A u \in Users : RLe(users[u], users'[u])]_vars

\* C6: for a user with one bet, in a settled round, the balance after
\* settlement minus the balance before the bet is the profit recorded in the
\* bet's result.
C6_NetOutcomeIsRecordedProfit ==
    \A u \in Users :
        (/\ AllIdle
         /\ Len(BetsOfUser(u)) = 1
         /\ Len(ResultsOfUser(u)) = 1)
            => RSub(users[u], Rat(InitBalance)) = ResultsOfUser(u)[1].profit

\* C7: a round never has more results than bets (it is settled at most once).
C7_ExactlyOnceSettlement ==
    \A g \in DOMAIN games : Len(ResultsOf(g)) <= Len(BetsOf(g))

\* C8: at most one game is active.
C8_AtMostOneActiveRound ==
    Cardinality({g \in DOMAIN games : games[g].status = "active"}) <= 1

\* C9: PlaceBet creates a bet only while the round it targets is active.
C9_NoBetIntoCompletedRound ==
    [][\A t \in DOMAIN pc :
          (pc[t] = "pb_create_bet" /\ loc'[t] # loc[t])
             => games[loc[t].currentGame].status = "active"]_vars

\* C10: when no request is running, every user's balance is the initial
\* balance minus the stakes of the user's bets plus the profits of the
\* user's results (no balance update is lost).
C10_NoLostBalanceUpdate ==
    AllIdle =>
        \A u \in Users :
            users[u] = RAdd(RSub(Rat(InitBalance), Rat(SumBetAmounts(BetsOfUser(u)))),
                            SumProfit(ResultsOfUser(u)))

\* C11: the house wallet write of PlayGame adds its deltas to the balance,
\* adminProfit and totalBets stored at that moment, so that no update written
\* since the wallet was read is lost.
C11_NoLostWalletUpdate ==
    [][\A t \in DOMAIN pc :
          (pc[t] = "pg_update_house_wallet" /\ pc'[t] = "idle" /\ faults' = faults)
             => /\ loc[t].houseWallet.balance = wallet.balance
                /\ loc[t].houseWallet.adminProfit = wallet.adminProfit
                /\ loc[t].houseWallet.totalBets = wallet.totalBets]_vars

\* C12: while no round has been settled or expired and no request is running,
\* every user's balance is the initial balance less the amounts of the user's
\* bets, every bet is pending, and every round's total_bets is the sum of the
\* amounts of its bets: PlaceBet applied its debit, its bet records and its
\* total_bets increment all together or not at all.
C12_AtomicBetProcessing ==
    (AllIdle /\ \A g \in DOMAIN games : games[g].status = "active")
        => /\ \A u \in Users :
                 users[u] = Rat(InitBalance - SumBetAmounts(BetsOfUser(u)))
           /\ \A i \in DOMAIN bets : bets[i].status = "pending"
           /\ \A g \in DOMAIN games :
                 games[g].totalBets = Rat(SumBetAmounts(BetsOf(g)))

\* C13: in a settled round no bet is pending: every bet of the round has the
\* status 'won', 'pushed' or 'lost' that the flags of its result give.
C13_BetStatusAfterSettlement ==
    \A g \in DOMAIN games : RoundSettled(g) =>
        \A i \in DOMAIN bets : bets[i].gameID = g =>
            /\ bets[i].status \in {"won", "pushed", "lost"}
            /\ \E j \in DOMAIN results :
                  /\ results[j].gameID = g
                  /\ results[j].userID = bets[i].userID
                  /\ results[j].ballID = bets[i].ballID
                  /\ results[j].betAmount = Rat(bets[i].amount)
                  /\ BetStatus(results[j]) = bets[i].status

\* C14: every stored GameResult has winAmount = betAmount + profit and a
\* multiplier equal to winAmount / betAmount.
C14_AuditTrailIdentity ==
    \A i \in DOMAIN results :
        /\ results[i].winAmount = RAdd(results[i].betAmount, results[i].profit)
        /\ results[i].multiplier = RDiv(results[i].winAmount, results[i].betAmount)

\* C14 witness: a wallet-limited result, stored with a multiplier below the
\* value of its basket, next to the result of a lost bet.
C14_Witness ==
    /\ AllIdle
    /\ \E i, j \in DOMAIN results :
          /\ results[i].walletLimited
          /\ RLt(results[i].multiplier, BasketValue(results[i].basketLanded))
          /\ ~results[j].won /\ ~results[j].pushed
          /\ RLt(results[j].profit, Zero)

\* C15: when a write of PlayGame's commit pass (user balance, bet status and
\* GameResult, house wallet) fails, PlayGame ends at once with an error and
\* the round is still active.
C15_SettlementFailureSurfaces ==
    [][\A t \in DOMAIN pc :
          (/\ pc[t] \in {"pg_update_user", "pg_create_result", "pg_update_house_wallet"}
           /\ faults' < faults)
             => /\ pc'[t] = "idle"
                /\ ret'[t] \notin {"ok", "none"}
                /\ games'[loc[t].currentGame].status = "active"]_vars

\* C16: the step in which PlaceBet returns a validation error, 'insufficient
\* balance' or 'house wallet is empty' changes no stored game, bet, result,
\* user balance or house wallet.
C16_PlaceBetRejectionNoMutation ==
    [][\A t \in DOMAIN pc :
          (/\ pc[t] \in {"idle"} \cup PlaceBetLabels
           /\ pc'[t] = "idle"
           /\ ret'[t] \in {"no balls selected for betting", "invalid ball ID",
                           "invalid bet amount", "maximum bet amount per ball is $1000",
                           "maximum total bet amount is $5000",
                           "minimum total bet amount is $10",
                           "insufficient balance", "house wallet is empty"})
             => UNCHANGED <<users, games, bets, results, wallet>>]_vars

\* C17: PlayGame on a round that is not active returns 'game is not active';
\* PlayGame on an active round that has not expired and has no bets returns
\* 'no bets found'; in both cases no step of the call changes a game, bet,
\* result, user balance or the house wallet, and the round without bets stays
\* active.
C17_PlayGameRejectionNoMutation ==
    [][\A t \in DOMAIN pc :
          /\ \A g \in DOMAIN games :
                (PlayGameStart(t, g) /\ games[g].status # "active")
                   => pc'[t] = "idle" /\ ret'[t] = "game is not active"
          /\ (pc[t] = "idle" /\ pc'[t] \in {"idle", "pg_get_bets"})
                => UNCHANGED <<users, games, bets, results, wallet>>
          /\ (pc[t] = "pg_get_bets" /\ pc'[t] # pc[t] /\ BetsOf(loc[t].currentGame) = <<>>)
                => /\ pc'[t] = "idle"
                   /\ ret'[t] = "no bets found for this game"
                   /\ games'[loc[t].currentGame].status = "active"
                   /\ UNCHANGED <<users, games, bets, results, wallet>>]_vars

\* C17 witness: PlayGame has returned 'no bets found' on a round that is
\* active and has no bets, after rounds were completed.
C17_Witness ==
    /\ \E t \in DOMAIN pc : pc[t] = "idle" /\ ret[t] = "no bets found for this game"
    /\ \E g \in DOMAIN games : games[g].status = "active" /\ BetsOf(g) = <<>>
    /\ \E g \in DOMAIN games : games[g].status = "completed"

\* C18: PlayGame on an active round created at least one staleness window
\* ago changes nothing before it completes the round; the completing step
\* sets the round 'completed' and nothing else (no winning ball, no winning
\* basket, no result, no bet status, no user balance, no house wallet field)
\* and returns the 'expired' error.
C18_TimeoutPath ==
    [][\A t \in DOMAIN pc :
          /\ \A g \in DOMAIN games :
                (/\ PlayGameStart(t, g)
                 /\ games[g].status = "active"
                 /\ now - games[g].createdAt >= 1)
                   => /\ pc'[t] = "pg_expire"
                      /\ UNCHANGED <<users, games, bets, results, wallet>>
          /\ (pc[t] = "pg_expire" /\ pc'[t] # pc[t])
                => LET g == loc[t].currentGame
                   IN  /\ games' = [games EXCEPT ![g].status = "completed"]
                       /\ games'[g].winningBallID = -1
                       /\ games'[g].winningBasketID = -1
                       /\ pc'[t] = "idle"
                       /\ ret'[t] = "game has expired due to inactivity"
                       /\ \A i \in DOMAIN bets' :
                             bets'[i].gameID = g => bets'[i].status = "pending"
                       /\ UNCHANGED <<users, bets, results, wallet>>]_vars

\* C18 witness: PlayGame has returned 'expired' on a round with a bet: the
\* round is completed without winning ball, its bet is pending and it has no
\* result.
C18_Witness ==
    /\ \E t \in DOMAIN pc : pc[t] = "idle" /\ ret[t] = "game has expired due to inactivity"
    /\ \E g \in DOMAIN games :
          /\ games[g].status = "completed"
          /\ games[g].winningBallID = -1
          /\ BetsOf(g) # <<>>
          /\ ResultsOf(g) = <<>>
          /\ \A i \in DOMAIN bets : bets[i].gameID = g => bets[i].status = "pending"

\* C19 (as stated): in a settled round the winning ball is one of the balls
\* with bets, and every bet on another ball is settled as a loss at 0x: not
\* won, not pushed, win amount 0.
C19_OnlyWinningBallPays ==
    \A g \in DOMAIN games : RoundSettled(g) =>
        /\ games[g].winningBallID \in BallsWithBets(BetsOf(g))
        /\ \A i \in DOMAIN results :
              (results[i].gameID = g /\ results[i].ballID # games[g].winningBallID)
                 => /\ ~results[i].won
                    /\ ~results[i].pushed
                    /\ results[i].winAmount = Zero

\* C19 (amended): in a settled round the winning ball recorded on the round
\* is one of the balls with bets, and every bet, on that ball or on another,
\* is scored by the multiplier of the basket its ball landed in: won at 2x or
\* more, pushed at 1x, lost below 1x, never settled at 0x.
C19_EveryBallScored ==
    \A g \in DOMAIN games : RoundSettled(g) =>
        /\ games[g].winningBallID \in BallsWithBets(BetsOf(g))
        /\ \A i \in DOMAIN results : results[i].gameID = g =>
              /\ results[i].basketLanded \in BasketIds
              /\ results[i].won <=> LandedWin(results[i])
              /\ results[i].pushed <=> LandedPush(results[i])
              /\ (~results[i].won /\ ~results[i].pushed)
                    <=> RLt(BasketValue(results[i].basketLanded), Rat(1))
              /\ RLt(Zero, results[i].winAmount)

\* C19 witness: a settled round in which a bet on a ball other than the
\* winning ball is won and paid a profit.
C19_Witness ==
    \E g \in DOMAIN games :
        /\ RoundSettled(g)
        /\ \E i \in DOMAIN results :
              /\ results[i].gameID = g
              /\ results[i].ballID # games[g].winningBallID
              /\ results[i].won
              /\ RLt(Zero, results[i].profit)

\* C20: when PlayGame scores a round, every bet of the round gets a result
\* on the bet's ball that landed in one of the baskets and is won exactly
\* when that basket pays 2x or more, the results of one ball share the
\* basket, and the winning basket recorded on the round is the basket of the
\* winning ball's results; each result is then stored with the ball and the
\* basket it was scored with.
C20_EachBallOwnBasket ==
    [][\A t \in DOMAIN pc :
          /\ (pc[t] = "pg_update_game" /\ pc'[t] = "pg_get_user")
                => LET g == loc[t].currentGame
                       rs == loc'[t].tempResults
                   IN  /\ Len(rs) = Len(BetsOf(g))
                       /\ \A i \in DOMAIN rs :
                             /\ rs[i].ballID \in BallsWithBets(BetsOf(g))
                             /\ rs[i].basketLanded \in BasketIds
                             /\ rs[i].won <=> IsWin(BasketValue(rs[i].basketLanded))
                             /\ \A j \in DOMAIN rs :
                                   rs[j].ballID = rs[i].ballID
                                      => rs[j].basketLanded = rs[i].basketLanded
                             /\ rs[i].ballID = games'[g].winningBallID
                                   => rs[i].basketLanded = games'[g].winningBasketID
          /\ (pc[t] = "pg_create_result" /\ results' # results)
                => /\ results'[Len(results')].ballID = loc[t].tempResults[loc[t].idx].ballID
                   /\ results'[Len(results')].basketLanded
                         = loc[t].tempResults[loc[t].idx].basketLanded]_vars

\* C20 witness: a settled round in which bets on two different balls landed
\* in two different baskets and are both won.
C20_Witness ==
    \E g \in DOMAIN games :
        /\ RoundSettled(g)
        /\ \E i, j \in DOMAIN results :
              /\ results[i].gameID = g /\ results[j].gameID = g
              /\ results[i].ballID # results[j].ballID
              /\ results[i].basketLanded # results[j].basketLanded
              /\ results[i].won /\ results[j].won

\* C21: the house wallet write that settles a round adds to the wallet's
\* totalBets exactly the sum of the amounts of the round's bets, and adds to
\* adminProfit a skim between 2% and 4% of that sum.
C21_LedgerDeltaPerRound ==
    [][\A t \in DOMAIN pc :
          (pc[t] = "pg_update_house_wallet" /\ pc'[t] = "idle" /\ faults' = faults)
             => LET roundTotal == Rat(SumBetAmounts(BetsOf(loc[t].currentGame)))
                    skim == RSub(wallet'.adminProfit, wallet.adminProfit)
                IN  /\ wallet'.totalBets = RAdd(wallet.totalBets, roundTotal)
                    /\ RLe(RMul(<<2, 100>>, roundTotal), skim)
                    /\ RLe(skim, RMul(<<4, 100>>, roundTotal))]_vars

\* C22: no step lowers the adminProfit stored in the house wallet.
C22_AdminProfitMonotone ==
    [][RLe(wallet.adminProfit, wallet'.adminProfit)]_vars

\* C23: a bet request is accepted exactly when it has 1 to 4 entries, every
\* ball id is one of 0..3, every amount is between 1 and 1000 and the total
\* is between 10 and 5000; any other request is answered with a validation
\* error.
C23_BetValidationBounds ==
    \A t \in DOMAIN pc : pc[t] = "bet_answered" =>
        LET req == loc[t].req
            total == SumFloats(req, DOMAIN req)
        IN  (ret[t] = "accepted")
               <=> /\ Cardinality(DOMAIN req) \in 1..4
                   /\ DOMAIN req \subseteq 0..3
                   /\ \A b \in DOMAIN req : RLe(Rat(1), req[b]) /\ RLe(req[b], Rat(1000))
                   /\ RLe(Rat(10), total) /\ RLe(total, Rat(5000))

\* C24: every catalog multiplier is classified as exactly one of won (2x or
\* more), pushed (exactly 1x) and lost (below 1x), with 2x won, 1x pushed
\* and 0.75x lost; each result PlayGame stores carries the won and pushed
\* flags of the multiplier of the basket it landed in, and the bet status
\* chosen for it is 'won', 'pushed' or 'lost' accordingly.
C24_ClassificationBoundaries ==
    [][\A t \in DOMAIN pc :
          (pc[t] = "pg_create_result" /\ results' # results)
             => LET r == results'[Len(results')]
                    landed == BasketValue(r.basketLanded)
                IN  /\ \A i \in BasketIds :
                          LET m == BasketValue(i)
                          IN  /\ IsWin(m) <=> RLe(Rat(2), m)
                              /\ IsPush(m) <=> m = Rat(1)
                              /\ IsLoss(m) <=> RLt(m, Rat(1))
                              /\ Cardinality({k \in 1..3 :
                                    <<IsWin(m), IsPush(m), IsLoss(m)>>[k]}) = 1
                    /\ IsWin(Rat(2)) /\ IsPush(Rat(1)) /\ IsLoss(<<3, 4>>)
                    /\ r.won <=> RLe(Rat(2), landed)
                    /\ r.pushed <=> landed = Rat(1)
                    /\ BetStatus(r) = IF RLe(Rat(2), landed) THEN "won"
                                      ELSE IF landed = Rat(1) THEN "pushed"
                                      ELSE "lost"]_vars

\* C24 witness: a settled round with a bet that landed in the 2x basket and
\* is won next to a bet that landed in the 1x basket and is pushed.
C24_Witness ==
    \E g \in DOMAIN games :
        /\ RoundSettled(g)
        /\ \E i, j \in DOMAIN results :
              /\ results[i].gameID = g /\ results[j].gameID = g
              /\ results[i].basketLanded = 4 /\ results[i].won /\ ~results[i].pushed
              /\ results[j].basketLanded = 3 /\ results[j].pushed /\ ~results[j].won

\* the selector call of a state, once it has returned
Selected(t) == pc[t] = "selected"
CallMaxMultiplier(t) == MaxMultiplier(loc[t].totalPlayerBets, loc[t].currentWallet)
CallWeights(t) == FinalWeights(loc[t].totalPlayerBets, loc[t].currentWallet)

\* C25: for a positive total bet on the ball, each of the baskets 2x, 4x, 8x
\* and 10x whose multiplier exceeds 0.20 * balance / total has final weight
\* zero and is not the basket CalculateWinningBasket returns.
C25_ExposureFilter ==
    \A t \in DOMAIN pc :
        (Selected(t) /\ RLt(Zero, loc[t].totalPlayerBets))
           => \A i \in 4..7 :
                 RLt(CallMaxMultiplier(t), BasketValue(i))
                    => CallWeights(t)[i + 1] = 0 /\ ret[t] # i

\* C26 (as stated): when the house balance passed to CalculateWinningBasket
\* is zero or negative, the total weight is zero and the function returns
\* basket 0 whatever the clock reads.
C26_FallbackOnEmptyWallet ==
    \A t \in DOMAIN pc :
        (Selected(t) /\ RLe(loc[t].currentWallet, Zero))
           => TotalWeight(CallWeights(t)) = 0 /\ ret[t] = 0

\* C26 (amended): when the house balance passed to CalculateWinningBasket is
\* zero or negative, the baskets 2x, 4x, 8x and 10x have weight zero and the
\* baskets 0.25x, 0.5x, 0.75x and 1x keep the weights 35, 25, 15 and 5, so
\* the total weight is 80; the function returns one of the baskets 0..3, and
\* each of the four is returned for some reading of the clock.
C26_LosingBasketsOnEmptyWallet ==
    \A t \in DOMAIN pc :
        (Selected(t) /\ RLe(loc[t].currentWallet, Zero))
           => /\ CallWeights(t) = <<35, 25, 15, 5, 0, 0, 0, 0>>
              /\ TotalWeight(CallWeights(t)) = 80
              /\ ret[t] \in 0..3
              /\ PossibleBaskets(loc[t].totalPlayerBets, loc[t].currentWallet) = 0..3

\* C26 witness: a call with a negative house balance returned the 1x basket.
C26_Witness ==
    \E t \in DOMAIN pc :
        /\ Selected(t)
        /\ RLt(loc[t].currentWallet, Zero)
        /\ RLt(Zero, loc[t].totalPlayerBets)
        /\ ret[t] = 3

\* C27: with final weights of total T, for every basket i the number of draw
\* values r in 0..T-1 for which CalculateWinningBasket returns i is the
\* weight of basket i.
C27_DrawProportional ==
    \A t \in DOMAIN pc :
        Selected(t) =>
            LET weights == CallWeights(t)
                totalWeight == TotalWeight(weights)
            IN  \A i \in BasketIds :
                    Cardinality({r \in 0..(totalWeight - 1) :
                                    DrawBasket(weights, r) = i}) = weights[i + 1]

\* C28: no user's stored balance is negative.
C28_BalancesNonNegative ==
    \A u \in Users : RLe(Zero, users[u])

\* C29: whatever the total bet and the house balance, the exposure filter
\* leaves the baskets 0.25x, 0.5x, 0.75x and 1x their weights 35, 25, 15 and
\* 5: at least four baskets are available, the weights are not redistributed,
\* the total weight is at least 80 (never zero), and the basket returned is
\* one of 0..7 whose final weight is positive.
C29_SelectorNeverDegenerates ==
    \A t \in DOMAIN pc :
        Selected(t) =>
            LET adjusted == AdjustedWeights(CallMaxMultiplier(t))
                weights == CallWeights(t)
            IN  /\ \A i \in 1..4 : adjusted[i] = DefaultWeights[i] /\ adjusted[i] > 0
                /\ AvailableCount(adjusted) >= 4
                /\ weights = adjusted
                /\ TotalWeight(weights) >= 80
                /\ ret[t] \in BasketIds
                /\ weights[ret[t] + 1] > 0

\* C29 witness: a call with a total bet so large that 0.20 * balance / total
\* is below every multiplier of the catalog returned the 1x basket.
C29_Witness ==
    \E t \in DOMAIN pc :
        /\ Selected(t)
        /\ RLt(Zero, loc[t].currentWallet)
        /\ RLt(Zero, loc[t].totalPlayerBets)
        /\ RLt(CallMaxMultiplier(t), BasketValue(0))
        /\ ret[t] = 3

\* C30: PlaceBet does not join a round that is older than the staleness
\* window: when it goes on from reading the current round to inserting bets
\* and debiting the user, the round it read is not stale.
C30_NoBetIntoStaleRound ==
    [][\A t \in DOMAIN pc :
          (pc[t] = "pb_get_current_game" /\ pc'[t] = "pb_create_bet")
             => ~IsStale(games[loc'[t].currentGame])]_vars

====
